---- MODULE Spec2Model ----
(***************************************************************************)
(* Model of the UPF operator charm (src/src/charm.py), its Kubernetes      *)
(* helper (src/src/kubernetes.py) and the UPF relation library             *)
(* (src/lib/charms/upf_operator/v0/upf.py).                                *)
(*                                                                         *)
(* The charm holds no storage of its own: every handler reads what it can  *)
(* observe (container connectivity, files, services, the statefulset, the  *)
(* cluster's network attachment definitions, the relation) and acts on it. *)
(* A handler runs to completion; it is modelled as an operator from a run  *)
(* record (what the invocation has changed and done so far) to a run       *)
(* record, and one action commits the whole invocation.                    *)
(***************************************************************************)
EXTENDS Naturals, Sequences, FiniteSets, TLC

VARIABLES
    canConnect,   \* [container -> BOOLEAN]: Container.can_connect()
    service,      \* [container -> "absent" | "inactive" | "active"]: the container's service in Pebble
    files,        \* the paths that exist in the containers' filesystems
    sts,          \* what of the multus patch the statefulset carries
    nads,         \* names of the NetworkAttachmentDefinitions that exist
    config,       \* the charm's config: "use-sriov", "use-hugepages"
    relations,    \* ids of the established "upf" relations
    appData,      \* [relation id -> url this application published, or Absent]
    status,       \* self.unit.status
    deferred,     \* events whose handler called event.defer() and wait for re-delivery
    handler,      \* the handler of the last invocation
    trace,        \* what the last invocation did, in order
    result,       \* how the last invocation ended: "ok" or the exception raised
    fresh,        \* TRUE from the end of an invocation until the environment changes
    pending       \* events Juju has emitted and not yet dispatched

vars == <<canConnect, service, files, sts, nads, config, relations, appData,
          status, deferred, handler, trace, result, fresh, pending>>

-----------------------------------------------------------------------------
(* Names and constants of the source *)

BESSD == "bessd"
ROUTECTL == "routectl"
WEB == "web"
PFCP_AGENT == "pfcp-agent"
Containers == {BESSD, ROUTECTL, WEB, PFCP_AGENT}

BESSD_CONTAINER_CONFIG_PATH == "/etc/bess/conf"
PFCP_AGENT_CONTAINER_CONFIG_PATH == "/tmp/conf"
CONFIG_FILE_NAME == "upf.json"
BessdConfigFile == BESSD_CONTAINER_CONFIG_PATH \o "/" \o CONFIG_FILE_NAME
BessdPoststartFile == BESSD_CONTAINER_CONFIG_PATH \o "/bessd-poststart.sh"
PfcpAgentConfigFile == PFCP_AGENT_CONTAINER_CONFIG_PATH \o "/" \o CONFIG_FILE_NAME
Files == {BessdConfigFile, BessdPoststartFile, PfcpAgentConfigFile}

ACCESS_NETWORK_ATTACHMENT_DEFINITION_NAME == "access-net"
CORE_NETWORK_ATTACHMENT_DEFINITION_NAME == "core-net"
NadNames == {ACCESS_NETWORK_ATTACHMENT_DEFINITION_NAME,
             CORE_NETWORK_ATTACHMENT_DEFINITION_NAME}

MultusAnnotation == "k8s.v1.cni.cncf.io/networks"
StsParts == {MultusAnnotation, "privileged", "NET_ADMIN"}

AppName == "upf-operator"
ModelName == "whatever"

ServiceStates == {"absent", "inactive", "active"}

Absent == "<absent>"

(* unit statuses: ActiveStatus, the WaitingStatus messages, and the status a
   unit has before any handler set one *)
Active == "active"
Unknown == "unknown"
WaitBessdContainer == "Waiting for bessd container to be ready"
WaitConfigFile == "Waiting for config file to be written"
WaitPodstartFile == "Waiting for podstart file to be written"
WaitStatefulset == "Waiting for statefulset to be patched"
WaitPrepareBessd == "Waiting to be able to prepare bessd container"
WaitRoutectlContainer == "Waiting for routectl container to be ready"
WaitWebContainer == "Waiting for web container to be ready"
WaitPfcpContainer == "Waiting for pfcp agent container to be ready"
WaitBessdRunning == "Waiting for bessd service to be running"
WaitBessdService == "Waiting for bessd service to run"
WaitRoutectlService == "Waiting for routectl service to run"
WaitWebService == "Waiting for web service to run"
WaitPfcpService == "Waiting for pfcp agent service to run"
WaitingMessages ==
    {WaitBessdContainer, WaitConfigFile, WaitPodstartFile, WaitStatefulset,
     WaitPrepareBessd, WaitRoutectlContainer, WaitWebContainer, WaitPfcpContainer,
     WaitBessdRunning, WaitBessdService, WaitRoutectlService, WaitWebService,
     WaitPfcpService}
IsWaiting(st) == st \in WaitingMessages

(* the one-shot commands *)
RanRouteCmd == "ip route replace 192.168.251.0/24 via 192.168.252.1"
DefaultRouteCmd == "ip route replace default via 192.168.250.1 metric 110"
IpTablesCmd == "iptables -I OUTPUT -p icmp --icmp-type port-unreachable -j DROP"
PoststartCmd == "/bin/bash -c " \o BessdPoststartFile
Commands == {RanRouteCmd, DefaultRouteCmd, IpTablesCmd, PoststartCmd}
NoDetail == ""
BessdEnvironment == "CONF_FILE=" \o BessdConfigFile
ExecTimeout == "timeout=30"
ScriptPermissions == "permissions=0o755"

-----------------------------------------------------------------------------
(* The run record of an invocation *)

Ev(op, arg, detail) == [op |-> op, arg |-> arg, detail |-> detail]

Begin ==
    [service |-> service, files |-> files, sts |-> sts, nads |-> nads,
     appData |-> appData, status |-> status, trace |-> <<>>, result |-> "ok"]

Do(s, op, arg, detail) == [s EXCEPT !.trace = Append(@, Ev(op, arg, detail))]

SetStatus(s, msg) == [Do(s, "status", msg, NoDetail) EXCEPT !.status = msg]

Defer(s) == Do(s, "defer", "", NoDetail)

Raise(s, exc) == [s EXCEPT !.result = exc]

Ops(tr) == [i \in 1..Len(tr) |-> tr[i].op]
HasOp(tr, op) == \E i \in 1..Len(tr) : tr[i].op = op
HasEv(tr, op, arg) == \E i \in 1..Len(tr) : tr[i].op = op /\ tr[i].arg = arg

(* what an invocation is given by its environment while it runs *)
NoCommand == "none"
Faults == {"none", "ApiError", "Http404", "HttpError"}
NoFaults == [n \in NadNames |-> "none"]
Input(execFail, relFail, nadFault, sigterm) ==
    [execFail |-> execFail, relFail |-> relFail, nadFault |-> nadFault,
     sigterm |-> sigterm, bessdExits |-> FALSE]

(* the same, when the bessd service started by replan() exits while the
   handler is still running, after the startup script and before the check
   of _set_application_status *)
Exiting(inp, x) == [inp EXCEPT !.bessdExits = x]
(* SIGTERM during patch_statefulset: none, or one that arrives while the
   patch call is under way, which the cluster has then applied or not *)
NoSigterm == "none"
Sigterms == {NoSigterm, "patch applied", "patch lost"}
NoInput == Input(NoCommand, {}, NoFaults, NoSigterm)

-----------------------------------------------------------------------------
(* charm.py: properties *)

_use_sriov == config["use-sriov"]

_use_hugepages == config["use-hugepages"]

(* mutant: the hostname without the cluster domain *)
_upf_hostname_short == AppName \o "." \o ModelName

_upf_hostname == AppName \o "." \o ModelName \o ".svc.cluster.local"

(* mutant: the config file is taken to be written without looking *)
_bessd_config_file_is_written_unchecked(s) == TRUE

_bessd_config_file_is_written(s) == BessdConfigFile \in s.files

(* mutant: the startup script is taken to be written without looking *)
_podstart_file_is_written_unchecked(s) == TRUE

_podstart_file_is_written(s) == BessdPoststartFile \in s.files

_pfcp_agent_config_file_is_written(s) == PfcpAgentConfigFile \in s.files

(* mutant: the can_connect() guard is forgotten *)
_service_is_running_unguarded(s, c) == s.service[c] = "active"

_service_is_running(s, c) == canConnect[c] /\ s.service[c] = "active"

(* kubernetes.py *)

(* mutant: the check also asks for the container security settings *)
statefulset_is_patched_with_security(s) == StsParts \subseteq s.sts

statefulset_is_patched(s) == MultusAnnotation \in s.sts

(* network_attachment_definition_created: "True", "False", or "raise" when
   the HTTP 404 of a missing resource kind is re-raised.  An ApiError whose
   reason is not NotFound, and any other HTTP error, end in `return False` *)
network_attachment_definition_created(s, name, inp) ==
    CASE inp.nadFault[name] = "Http404" -> "raise"
      [] inp.nadFault[name] \in {"ApiError", "HttpError"} -> "False"
      [] OTHER -> IF name \in s.nads THEN "True" ELSE "False"

(* client.create answers 409 (an ApiError) for a resource that exists *)
create_network_attachement_definition(s, name) ==
    LET t == Do(s, "create", name, "macvlan")
    IN  IF name \in s.nads THEN Raise(t, "ApiError")
        ELSE [t EXCEPT !.nads = @ \cup {name}]

(* client.delete answers 404 (an ApiError) for a resource that does not exist *)
delete_network_attachment_definition(s, name) ==
    LET t == Do(s, "delete", name, NoDetail)
    IN  IF name \notin s.nads THEN Raise(t, "ApiError")
        ELSE [t EXCEPT !.nads = @ \ {name}]

(* the client.get of network_attachment_definition_created, with what the
   cluster answered *)
Lookup(s, name, inp) == Do(s, "get", name, inp.nadFault[name])

(* mutant: the definition is created whatever the lookup answered *)
CreateUnguarded(s, name, inp) ==
    LET c == network_attachment_definition_created(s, name, inp)
        g == Lookup(s, name, inp)
    IN  IF c = "raise" THEN Raise(g, "HTTPStatusError")
        ELSE create_network_attachement_definition(g, name)

CreateIfMissing(s, name, inp) ==
    LET c == network_attachment_definition_created(s, name, inp)
        g == Lookup(s, name, inp)
    IN  IF c = "raise" THEN Raise(g, "HTTPStatusError")
        ELSE IF c = "False" THEN create_network_attachement_definition(g, name)
        ELSE g

create_network_attachment_definitions(s, inp) ==
    LET a == CreateIfMissing(s, ACCESS_NETWORK_ATTACHMENT_DEFINITION_NAME, inp)
    IN  IF a.result # "ok" THEN a
        ELSE CreateIfMissing(a, CORE_NETWORK_ATTACHMENT_DEFINITION_NAME, inp)

(* mutant: the definition is deleted whatever the lookup answered *)
DeleteUnguarded(s, name, inp) ==
    LET c == network_attachment_definition_created(s, name, inp)
        g == Lookup(s, name, inp)
    IN  IF c = "raise" THEN Raise(g, "HTTPStatusError")
        ELSE delete_network_attachment_definition(g, name)

DeleteIfCreated(s, name, inp) ==
    LET c == network_attachment_definition_created(s, name, inp)
        g == Lookup(s, name, inp)
    IN  IF c = "raise" THEN Raise(g, "HTTPStatusError")
        ELSE IF c = "True" THEN delete_network_attachment_definition(g, name)
        ELSE g

delete_network_attachment_definitions(s, inp) ==
    LET a == DeleteIfCreated(s, ACCESS_NETWORK_ATTACHMENT_DEFINITION_NAME, inp)
    IN  IF a.result # "ok" THEN a
        ELSE DeleteIfCreated(a, CORE_NETWORK_ATTACHMENT_DEFINITION_NAME, inp)

(* mutant: the process ends with an error status *)
_handle_pod_termination_fails(s) == Raise(s, "SystemExit(1)")

(* _handle_pod_termination: sys.exit(0) *)
_handle_pod_termination(s) == Raise(s, "SystemExit(0)")

(* mutant: the statefulset is patched whatever statefulset_is_patched says *)
patch_statefulset_unguarded(s, inp) ==
    LET g == Do(s, "signal", "SIGTERM", "_handle_pod_termination")
        c == Do(g, "patch", AppName, NoDetail)
        p == [c EXCEPT !.sts = @ \cup StsParts]
    IN  CASE inp.sigterm = NoSigterm -> p
          [] inp.sigterm = "patch applied" -> _handle_pod_termination(p)
          [] inp.sigterm = "patch lost" -> _handle_pod_termination(c)

(* patch_statefulset: the SIGTERM handler is set right before client.patch;
   inp.sigterm: the pod is terminated while the patch call is under way *)
patch_statefulset(s, inp) ==
    IF statefulset_is_patched(s) THEN s
    ELSE
      LET g == Do(s, "signal", "SIGTERM", "_handle_pod_termination")
          c == Do(g, "patch", AppName, NoDetail)
          p == [c EXCEPT !.sts = @ \cup StsParts]
      IN  CASE inp.sigterm = NoSigterm -> p
            [] inp.sigterm = "patch applied" -> _handle_pod_termination(p)
            [] inp.sigterm = "patch lost" -> _handle_pod_termination(c)

(* Container.add_layer(..., combine=True) declares the service; replan()
   starts every service whose startup is enabled *)
add_layer(s, c) ==
    [Do(s, "add_layer", c, NoDetail) EXCEPT
        !.service[c] = IF @ = "absent" THEN "inactive" ELSE @]

replan(s, c) ==
    [Do(s, "replan", c, NoDetail) EXCEPT
        !.service[c] = IF @ = "absent" THEN @ ELSE "active"]

(* Container.exec(command).wait_output(): ExecError on a non-zero exit *)
exec(s, cmd, detail, inp) ==
    LET t == Do(s, "exec", cmd, detail)
    IN  IF inp.execFail = cmd
        THEN Raise(Do(t, "ExecError", cmd, "non-zero exit"), "ExecError")
        ELSE t

(* mutant: the ModelError of a write is not caught: it ends the loop and
   leaves the handler *)
SetUrlOrRaise(s, r, url, inp) ==
    IF s.result # "ok" THEN s
    ELSE IF r \in inp.relFail
    THEN Raise(Do(s, "ModelError", ToString(r), NoDetail), "ModelError")
    ELSE [s EXCEPT !.appData[r] = url]

(* mutant: a url that is already there is withdrawn by the next write *)
SetUrlToggles(s, r, url, inp) ==
    IF r \in inp.relFail
    THEN Do(s, "ModelError", ToString(r), NoDetail)
    ELSE [s EXCEPT !.appData[r] = IF @ = url THEN Absent ELSE url]

(* upf.py: the body of the loop of set_info for relation r: the write of
   "url", or the ModelError it raises, which is logged and passed over *)
SetUrl(s, r, url, inp) ==
    IF r \in inp.relFail
    THEN Do(s, "ModelError", ToString(r), NoDetail)
    ELSE [s EXCEPT !.appData[r] = url]

(* the loop of set_info over the relations rs, in the order of their ids *)
RECURSIVE SetUrls(_, _, _, _)
SetUrls(s, rs, url, inp) ==
    IF rs = {} THEN s
    ELSE LET r == CHOOSE x \in rs : \A y \in rs : x <= y
         IN  SetUrls(SetUrl(s, r, url, inp), rs \ {r}, url, inp)

(* upf.py: UPFProvides.set_info *)
set_info(s, url, inp) ==
    SetUrls(Do(s, "set_info", url, NoDetail), relations, url, inp)

_update_upf_relation(s, inp) == set_info(s, _upf_hostname, inp)

(* mutant: the web service is left out of the recomputation *)
_set_application_status_without_web(s) ==
    LET t == Do(s, "_set_application_status", "", NoDetail)
    IN  IF ~_service_is_running(t, BESSD) THEN SetStatus(t, WaitBessdService)
        ELSE IF ~_service_is_running(t, ROUTECTL) THEN SetStatus(t, WaitRoutectlService)
        ELSE IF ~_service_is_running(t, PFCP_AGENT) THEN SetStatus(t, WaitPfcpService)
        ELSE SetStatus(t, Active)

_set_application_status(s) ==
    LET t == Do(s, "_set_application_status", "", NoDetail)
    IN  IF ~_service_is_running(t, BESSD) THEN SetStatus(t, WaitBessdService)
        ELSE IF ~_service_is_running(t, ROUTECTL) THEN SetStatus(t, WaitRoutectlService)
        ELSE IF ~_service_is_running(t, WEB) THEN SetStatus(t, WaitWebService)
        ELSE IF ~_service_is_running(t, PFCP_AGENT) THEN SetStatus(t, WaitPfcpService)
        ELSE SetStatus(t, Active)

_set_ran_route(s, inp) == exec(s, RanRouteCmd, ExecTimeout, inp)

_set_default_route(s, inp) == exec(s, DefaultRouteCmd, ExecTimeout, inp)

_set_ip_tables(s, inp) == exec(s, IpTablesCmd, ExecTimeout, inp)

(* mutant: the firewall rule is inserted before the routes are set *)
_prepare_bessd_container_iptables_first(s, inp) ==
    LET a == _set_ip_tables(s, inp)
        b == IF a.result # "ok" THEN a ELSE _set_ran_route(a, inp)
    IN  IF b.result # "ok" THEN b ELSE _set_default_route(b, inp)

(* mutant: a failed command does not stop the sequence *)
_prepare_bessd_container_keeps_going(s, inp) ==
    LET a == _set_ran_route(s, inp)
        b == _set_default_route([a EXCEPT !.result = "ok"], inp)
        c == _set_ip_tables([b EXCEPT !.result = "ok"], inp)
    IN  IF "ExecError" \in {a.result, b.result, c.result}
        THEN Raise(c, "ExecError") ELSE c

_prepare_bessd_container(s, inp) ==
    LET a == _set_ran_route(s, inp)
        b == IF a.result # "ok" THEN a ELSE _set_default_route(a, inp)
    IN  IF b.result # "ok" THEN b ELSE _set_ip_tables(b, inp)

(* mutant: the failure of the startup script is swallowed *)
_execute_bessd_poststart_script_swallowed(s, inp) ==
    [exec(s, PoststartCmd, BessdEnvironment, inp) EXCEPT !.result = "ok"]

_execute_bessd_poststart_script(s, inp) ==
    exec(s, PoststartCmd, BessdEnvironment, inp)

(* the bessd service as _set_application_status finds it: Pebble started it
   on replan(), and it has stayed up since or has exited *)
ServiceMayExit(s, inp) ==
    IF inp.bessdExits THEN [s EXCEPT !.service[BESSD] = "inactive"] ELSE s

(* mutant: the status is recomputed before the startup script is run *)
_on_bessd_pebble_ready_status_first(s, inp) ==
    IF ~canConnect[BESSD] THEN Defer(SetStatus(s, WaitBessdContainer))
    ELSE IF ~_bessd_config_file_is_written(s) THEN SetStatus(s, WaitConfigFile)
    ELSE IF ~_podstart_file_is_written(s) THEN SetStatus(s, WaitPodstartFile)
    ELSE IF ~statefulset_is_patched(s) THEN Defer(SetStatus(s, WaitStatefulset))
    ELSE
      LET p == _prepare_bessd_container(s, inp)
      IN  IF p.result = "ExecError"
          THEN Defer(SetStatus([p EXCEPT !.result = "ok"], WaitPrepareBessd))
          ELSE
            LET e == _execute_bessd_poststart_script(
                         _set_application_status(
                             ServiceMayExit(replan(add_layer(p, BESSD), BESSD), inp)),
                         inp)
            IN  IF e.result # "ok" THEN e
                ELSE _update_upf_relation(e, inp)

_on_bessd_pebble_ready(s, inp) ==
    IF ~canConnect[BESSD] THEN Defer(SetStatus(s, WaitBessdContainer))
    ELSE IF ~_bessd_config_file_is_written(s) THEN SetStatus(s, WaitConfigFile)
    ELSE IF ~_podstart_file_is_written(s) THEN SetStatus(s, WaitPodstartFile)
    ELSE IF ~statefulset_is_patched(s) THEN Defer(SetStatus(s, WaitStatefulset))
    ELSE
      LET p == _prepare_bessd_container(s, inp)
      IN  IF p.result = "ExecError"
          THEN Defer(SetStatus([p EXCEPT !.result = "ok"], WaitPrepareBessd))
          ELSE
            LET e == _execute_bessd_poststart_script(
                         replan(add_layer(p, BESSD), BESSD), inp)
            IN  IF e.result # "ok" THEN e
                ELSE _update_upf_relation(
                         _set_application_status(ServiceMayExit(e, inp)), inp)

(* mutant: the routectl plan is applied without the statefulset check *)
_on_routectl_pebble_ready_unpatched(s, inp) ==
    IF ~canConnect[ROUTECTL] THEN Defer(SetStatus(s, WaitRoutectlContainer))
    ELSE _set_application_status(replan(add_layer(s, ROUTECTL), ROUTECTL))

_on_routectl_pebble_ready(s, inp) ==
    IF ~canConnect[ROUTECTL] THEN Defer(SetStatus(s, WaitRoutectlContainer))
    ELSE IF ~statefulset_is_patched(s) THEN Defer(SetStatus(s, WaitStatefulset))
    ELSE _set_application_status(replan(add_layer(s, ROUTECTL), ROUTECTL))

(* mutant: an unpatched statefulset makes the web handler return silently *)
_on_web_pebble_ready_silent(s, inp) ==
    IF ~canConnect[WEB] THEN Defer(SetStatus(s, WaitWebContainer))
    ELSE IF ~statefulset_is_patched(s) THEN s
    ELSE _set_application_status(replan(add_layer(s, WEB), WEB))

_on_web_pebble_ready(s, inp) ==
    IF ~canConnect[WEB] THEN Defer(SetStatus(s, WaitWebContainer))
    ELSE IF ~statefulset_is_patched(s) THEN Defer(SetStatus(s, WaitStatefulset))
    ELSE _set_application_status(replan(add_layer(s, WEB), WEB))

(* mutant: the pfcp-agent plan is applied without the bessd service check *)
_on_pfcp_agent_pebble_ready_bessd_unchecked(s, inp) ==
    IF ~canConnect[PFCP_AGENT] THEN Defer(SetStatus(s, WaitPfcpContainer))
    ELSE IF ~_pfcp_agent_config_file_is_written(s) THEN Defer(SetStatus(s, WaitConfigFile))
    ELSE IF ~statefulset_is_patched(s) THEN Defer(SetStatus(s, WaitStatefulset))
    ELSE _set_application_status(replan(add_layer(s, PFCP_AGENT), PFCP_AGENT))

(* mutant: waiting for the bessd service returns without deferring *)
_on_pfcp_agent_pebble_ready_no_defer(s, inp) ==
    IF ~canConnect[PFCP_AGENT] THEN Defer(SetStatus(s, WaitPfcpContainer))
    ELSE IF ~_pfcp_agent_config_file_is_written(s) THEN Defer(SetStatus(s, WaitConfigFile))
    ELSE IF ~_service_is_running(s, BESSD) THEN SetStatus(s, WaitBessdRunning)
    ELSE IF ~statefulset_is_patched(s) THEN Defer(SetStatus(s, WaitStatefulset))
    ELSE _set_application_status(replan(add_layer(s, PFCP_AGENT), PFCP_AGENT))

_on_pfcp_agent_pebble_ready(s, inp) ==
    IF ~canConnect[PFCP_AGENT] THEN Defer(SetStatus(s, WaitPfcpContainer))
    ELSE IF ~_pfcp_agent_config_file_is_written(s) THEN Defer(SetStatus(s, WaitConfigFile))
    ELSE IF ~_service_is_running(s, BESSD) THEN Defer(SetStatus(s, WaitBessdRunning))
    ELSE IF ~statefulset_is_patched(s) THEN Defer(SetStatus(s, WaitStatefulset))
    ELSE _set_application_status(replan(add_layer(s, PFCP_AGENT), PFCP_AGENT))

(* mutant: the url is published whatever the bessd service does *)
_on_upf_relation_joined_unguarded(s, inp) == _update_upf_relation(s, inp)

(* mutant: the url is published as soon as bessd can be reached *)
_on_upf_relation_joined_when_connectable(s, inp) ==
    IF ~canConnect[BESSD] THEN s
    ELSE _update_upf_relation(s, inp)

_on_upf_relation_joined(s, inp) ==
    IF ~_service_is_running(s, BESSD) THEN s
    ELSE _update_upf_relation(s, inp)

Mode(use_sriov) == IF use_sriov THEN "dpdk" ELSE "af_packet"

(* the rendered upf.json: a function of the hostname and the mode *)
Render(upf_hostname, mode) == "hostname=" \o upf_hostname \o ",mode=" \o mode

_write_config_file(s, use_sriov) ==
    [Do(s, "push", BessdConfigFile, Render(_upf_hostname, Mode(use_sriov))) EXCEPT
        !.files = @ \cup {BessdConfigFile}]

_write_poststart_script(s) ==
    [Do(s, "push", BessdPoststartFile, ScriptPermissions) EXCEPT
        !.files = @ \cup {BessdPoststartFile}]

(* mutant: install waits for the bessd container before it does anything *)
_on_install_waits_for_bessd(s, inp) ==
    IF _use_sriov THEN Raise(s, "NotImplementedError")
    ELSE IF _use_hugepages THEN Raise(s, "NotImplementedError")
    ELSE IF ~canConnect[BESSD] THEN Defer(SetStatus(s, WaitBessdContainer))
    ELSE
      LET c == create_network_attachment_definitions(s, inp)
      IN  IF c.result # "ok" THEN c ELSE patch_statefulset(c, inp)

(* mutant: the flags are looked at after the network attachment definitions
   are created *)
_on_install_flags_late(s, inp) ==
    LET c == create_network_attachment_definitions(s, inp)
    IN  IF c.result # "ok" THEN c
        ELSE IF _use_sriov THEN Raise(c, "NotImplementedError")
        ELSE IF _use_hugepages THEN Raise(c, "NotImplementedError")
        ELSE patch_statefulset(c, inp)

_on_install(s, inp) ==
    IF _use_sriov THEN Raise(s, "NotImplementedError")
    ELSE IF _use_hugepages THEN Raise(s, "NotImplementedError")
    ELSE
      LET c == create_network_attachment_definitions(s, inp)
      IN  IF c.result # "ok" THEN c ELSE patch_statefulset(c, inp)

(* mutant: the files are written without asking whether bessd can be reached *)
_on_config_changed_unconnected(s, inp) ==
    IF _use_sriov THEN Raise(s, "NotImplementedError")
    ELSE IF _use_hugepages THEN Raise(s, "NotImplementedError")
    ELSE
      LET w == _write_poststart_script(_write_config_file(s, _use_sriov))
          b == _on_bessd_pebble_ready(w, inp)
      IN  IF b.result # "ok" THEN b ELSE _on_pfcp_agent_pebble_ready(b, inp)

(* mutant: the pfcp-agent handler is run before the bessd handler *)
_on_config_changed_pfcp_first(s, inp) ==
    IF _use_sriov THEN Raise(s, "NotImplementedError")
    ELSE IF _use_hugepages THEN Raise(s, "NotImplementedError")
    ELSE IF ~canConnect[BESSD] THEN Defer(SetStatus(s, WaitBessdContainer))
    ELSE
      LET w == _write_poststart_script(_write_config_file(s, _use_sriov))
          a == _on_pfcp_agent_pebble_ready(w, inp)
      IN  _on_bessd_pebble_ready(a, inp)

(* mutant: the pfcp-agent handler is not run when the bessd handler deferred *)
_on_config_changed_stops_when_deferred(s, inp) ==
    IF _use_sriov THEN Raise(s, "NotImplementedError")
    ELSE IF _use_hugepages THEN Raise(s, "NotImplementedError")
    ELSE IF ~canConnect[BESSD] THEN Defer(SetStatus(s, WaitBessdContainer))
    ELSE
      LET w == _write_poststart_script(_write_config_file(s, _use_sriov))
          b == _on_bessd_pebble_ready(w, inp)
      IN  IF b.result # "ok" \/ HasOp(b.trace, "defer") THEN b
          ELSE _on_pfcp_agent_pebble_ready(b, inp)

(* mutant: the bessd handler is not run again once the bessd service runs *)
_on_config_changed_skips_running_bessd(s, inp) ==
    IF _use_sriov THEN Raise(s, "NotImplementedError")
    ELSE IF _use_hugepages THEN Raise(s, "NotImplementedError")
    ELSE IF ~canConnect[BESSD] THEN Defer(SetStatus(s, WaitBessdContainer))
    ELSE
      LET w == _write_poststart_script(_write_config_file(s, _use_sriov))
          b == IF _service_is_running(w, BESSD) THEN w
               ELSE _on_bessd_pebble_ready(w, inp)
      IN  IF b.result # "ok" THEN b ELSE _on_pfcp_agent_pebble_ready(b, inp)

_on_config_changed(s, inp) ==
    IF _use_sriov THEN Raise(s, "NotImplementedError")
    ELSE IF _use_hugepages THEN Raise(s, "NotImplementedError")
    ELSE IF ~canConnect[BESSD] THEN Defer(SetStatus(s, WaitBessdContainer))
    ELSE
      LET w == _write_poststart_script(_write_config_file(s, _use_sriov))
          b == _on_bessd_pebble_ready(w, inp)
      IN  IF b.result # "ok" THEN b ELSE _on_pfcp_agent_pebble_ready(b, inp)

(* mutant: remove also withdraws the published url *)
_on_remove_clears_url(s, inp) ==
    [delete_network_attachment_definitions(s, inp) EXCEPT
        !.appData = [r \in DOMAIN @ |-> Absent]]

_on_remove(s, inp) == delete_network_attachment_definitions(s, inp)

-----------------------------------------------------------------------------
(* Events: self.framework.observe(...) in __init__ *)

Events ==
    {"install", "config_changed", "remove", "bessd_pebble_ready",
     "routectl_pebble_ready", "web_pebble_ready", "pfcp_agent_pebble_ready",
     "upf_relation_joined"}

Dispatch(e, s, inp) ==
    CASE e = "install" -> _on_install(s, inp)
      [] e = "config_changed" -> _on_config_changed(s, inp)
      [] e = "remove" -> _on_remove(s, inp)
      [] e = "bessd_pebble_ready" -> _on_bessd_pebble_ready(s, inp)
      [] e = "routectl_pebble_ready" -> _on_routectl_pebble_ready(s, inp)
      [] e = "web_pebble_ready" -> _on_web_pebble_ready(s, inp)
      [] e = "pfcp_agent_pebble_ready" -> _on_pfcp_agent_pebble_ready(s, inp)
      [] e = "upf_relation_joined" -> _on_upf_relation_joined(s, inp)

Deferred(s) == HasOp(s.trace, "defer")

(* the end of an invocation: what it changed becomes the state *)
Commit(h, s) ==
    /\ service' = s.service
    /\ files' = s.files
    /\ sts' = s.sts
    /\ nads' = s.nads
    /\ appData' = s.appData
    /\ status' = s.status
    /\ handler' = h
    /\ trace' = s.trace
    /\ result' = s.result
    /\ fresh' = TRUE
    /\ UNCHANGED <<canConnect, config, relations>>

(* Juju emits an event of kind e and the framework dispatches it *)
Deliver(e, inp) ==
    LET s == Dispatch(e, Begin, inp)
    IN  /\ Commit(e, s)
        /\ deferred' = IF Deferred(s) THEN deferred \cup {e} ELSE deferred
        /\ UNCHANGED pending

(* an event Juju has emitted is dispatched; Juju runs a hook that failed
   again, so the event stays pending when the handler raised *)
DeliverPending(e, inp) ==
    /\ e \in pending
    /\ LET s == Dispatch(e, Begin, inp)
       IN  /\ Commit(e, s)
           /\ deferred' = IF Deferred(s) THEN deferred \cup {e} ELSE deferred
           /\ pending' = IF s.result = "ok" THEN pending \ {e} ELSE pending

(* a deferred event is delivered again; it stays deferred when the handler
   defers it again, and also when the handler raised: the failed hook is run
   again with the same deferred events *)
Redeliver(e, inp) ==
    /\ e \in deferred
    /\ LET s == Dispatch(e, Begin, inp)
       IN  /\ Commit(e, s)
           /\ deferred' = IF Deferred(s) \/ s.result # "ok"
                          THEN deferred ELSE deferred \ {e}
           /\ UNCHANGED pending

ExecFailures == Commands \cup {NoCommand}

MaxRelations == 2
RelationIds == 1..MaxRelations

NadFaults == [NadNames -> Faults]

-----------------------------------------------------------------------------
(* Actions: one per lifecycle event *)

Install ==
    \E nf \in NadFaults, sg \in Sigterms :
        Deliver("install", Input(NoCommand, {}, nf, sg))

(* a failed relation write and an exited bessd service are only met by an
   invocation in which every command has run to its end *)
ConfigChanged ==
    \E f \in ExecFailures, rf \in SUBSET relations, x \in BOOLEAN :
        /\ f # NoCommand => (rf = {} /\ ~x)
        /\ Deliver("config_changed", Exiting(Input(f, rf, NoFaults, NoSigterm), x))

Remove ==
    \E nf \in NadFaults : Deliver("remove", Input(NoCommand, {}, nf, NoSigterm))

BessdPebbleReady ==
    \E f \in ExecFailures, rf \in SUBSET relations, x \in BOOLEAN :
        /\ f # NoCommand => (rf = {} /\ ~x)
        /\ Deliver("bessd_pebble_ready", Exiting(Input(f, rf, NoFaults, NoSigterm), x))

RoutectlPebbleReady == Deliver("routectl_pebble_ready", NoInput)

WebPebbleReady == Deliver("web_pebble_ready", NoInput)

PfcpAgentPebbleReady == Deliver("pfcp_agent_pebble_ready", NoInput)

UpfRelationJoined ==
    /\ relations # {}
    /\ \E rf \in SUBSET relations :
        Deliver("upf_relation_joined", Input(NoCommand, rf, NoFaults, NoSigterm))

RedeliverDeferred ==
    \E e \in deferred, f \in ExecFailures, rf \in SUBSET relations :
        Redeliver(e, Input(f, rf, NoFaults, NoSigterm))

(* _set_application_status on its own *)
RecomputeStatus ==
    /\ handler = "none"
    /\ Commit("_set_application_status", _set_application_status(Begin))
    /\ UNCHANGED <<deferred, pending>>

-----------------------------------------------------------------------------
(* Initial states *)

NoRun ==
    /\ deferred = {}
    /\ pending = {}
    /\ handler = "none"
    /\ trace = <<>>
    /\ result = "ok"
    /\ fresh = FALSE

DefaultConfig == [k \in {"use-sriov", "use-hugepages"} |-> FALSE]

(* every observation of the four containers, nothing else in place *)
InitStatus ==
    /\ canConnect \in [Containers -> BOOLEAN]
    /\ service \in [Containers -> ServiceStates]
    /\ files = {}
    /\ sts = {}
    /\ nads = {}
    /\ config = DefaultConfig
    /\ relations = {}
    /\ appData = [r \in RelationIds |-> Absent]
    /\ status \in {Unknown, Active}
    /\ NoRun

SpecStatus == InitStatus /\ [][RecomputeStatus]_vars

(* a container that cannot be reached shows nothing of its service, and no
   handler reads or changes it: it is drawn as absent *)
Observable ==
    \A c \in Containers : ~canConnect[c] => service[c] = "absent"

(* every observation a container-ready handler can meet *)
InitReady ==
    /\ canConnect \in [Containers -> BOOLEAN]
    /\ service \in [Containers -> ServiceStates]
    /\ Observable
    /\ files \in SUBSET Files
    /\ sts \in {{}, StsParts}
    /\ nads = NadNames
    /\ config = DefaultConfig
    /\ relations = RelationIds
    /\ appData = [r \in RelationIds |-> Absent]
    /\ status \in {Unknown, Active}
    /\ NoRun

NextReady ==
    \/ BessdPebbleReady
    \/ RoutectlPebbleReady
    \/ WebPebbleReady
    \/ PfcpAgentPebbleReady

SpecReady == InitReady /\ [][NextReady]_vars

-----------------------------------------------------------------------------
(* The environment: Pebble in the four containers *)

EnvChange ==
    /\ fresh' = FALSE
    /\ UNCHANGED <<status, deferred, pending, handler, trace, result, appData>>

(* Pebble in container c starts answering *)
PebbleUp(c) ==
    /\ ~canConnect[c]
    /\ canConnect' = [canConnect EXCEPT ![c] = TRUE]
    /\ EnvChange
    /\ UNCHANGED <<service, files, sts, nads, config, relations>>

(* Pebble in container c stops answering *)
PebbleDown(c) ==
    /\ canConnect[c]
    /\ canConnect' = [canConnect EXCEPT ![c] = FALSE]
    /\ EnvChange
    /\ UNCHANGED <<service, files, sts, nads, config, relations>>

(* the service of container c exits *)
ServiceExits(c) ==
    /\ service[c] = "active"
    /\ service' = [service EXCEPT ![c] = "inactive"]
    /\ EnvChange
    /\ UNCHANGED <<canConnect, files, sts, nads, config, relations>>

(* a unit whose statefulset is patched and whose files are in place, before
   any container has started; the container-ready handlers then run while
   Pebble and the services come and go *)
InitDrift ==
    /\ canConnect = [c \in Containers |-> FALSE]
    /\ service = [c \in Containers |-> "absent"]
    /\ files = Files
    /\ sts = StsParts
    /\ nads = NadNames
    /\ config = DefaultConfig
    /\ relations = {}
    /\ appData = [r \in RelationIds |-> Absent]
    /\ status = Unknown
    /\ NoRun

NextDrift ==
    \/ BessdPebbleReady
    \/ RoutectlPebbleReady
    \/ WebPebbleReady
    \/ PfcpAgentPebbleReady
    \/ \E c \in Containers : PebbleUp(c)
    \/ \E c \in Containers : PebbleDown(c)
    \/ \E c \in Containers : ServiceExits(c)

SpecDrift == InitDrift /\ [][NextDrift]_vars

-----------------------------------------------------------------------------
(* Set-up and tear-down: install, config-changed and remove on a unit whose
   services have not been started, under every setting of the two flags,
   every set of network attachment definitions already in the cluster and
   either state of the statefulset *)

Flags == {"use-sriov", "use-hugepages"}

Published == [r \in RelationIds |-> _upf_hostname]
Unpublished == [r \in RelationIds |-> Absent]

InitSetup ==
    /\ canConnect \in [Containers -> BOOLEAN]
    /\ ~canConnect[ROUTECTL] /\ ~canConnect[WEB]
    /\ service = [c \in Containers |-> "absent"]
    /\ files = {}
    /\ sts \in {{}, StsParts}
    /\ nads \in SUBSET NadNames
    /\ config \in [Flags -> BOOLEAN]
    /\ relations = RelationIds
    /\ \/ status = Unknown /\ appData = Unpublished
       \/ status = Active /\ appData = Published
    /\ NoRun

NextSetup ==
    \/ Install
    \/ ConfigChanged
    \/ Remove

SpecSetup == InitSetup /\ [][NextSetup]_vars

(* Reconfiguration and relations: config-changed and relation-joined with
   supported flags, whatever the containers show; routectl and web are
   either not reachable or running *)
InitConfig ==
    /\ canConnect \in [Containers -> BOOLEAN]
    /\ service \in [Containers -> ServiceStates]
    /\ Observable
    /\ \A c \in {ROUTECTL, WEB} : canConnect[c] => service[c] = "active"
    /\ files \in SUBSET Files
    /\ sts \in {{}, StsParts}
    /\ nads = NadNames
    /\ config = DefaultConfig
    /\ relations = RelationIds
    /\ appData \in {Unpublished, Published}
    /\ status \in {Unknown, Active}
    /\ NoRun

NextConfig ==
    \/ ConfigChanged
    \/ UpfRelationJoined

SpecConfig == InitConfig /\ [][NextConfig]_vars

(* The handlers that wait: config-changed and the four container-ready
   handlers, whatever the containers show, on a unit that is Active and has
   no relation *)
InitHandlers ==
    /\ canConnect \in [Containers -> BOOLEAN]
    /\ service \in [Containers -> ServiceStates]
    /\ Observable
    /\ \A c \in {ROUTECTL, WEB} : canConnect[c] => service[c] = "active"
    /\ files \in SUBSET Files
    /\ sts \in {{}, StsParts}
    /\ nads = NadNames
    /\ config = DefaultConfig
    /\ relations = {}
    /\ appData = Unpublished
    /\ status = Active
    /\ NoRun

NextHandlers ==
    \/ ConfigChanged
    \/ BessdPebbleReady
    \/ RoutectlPebbleReady
    \/ WebPebbleReady
    \/ PfcpAgentPebbleReady

SpecHandlers == InitHandlers /\ [][NextHandlers]_vars

(* The handlers that publish the url: the bessd container-ready handler, on
   its own and within config-changed, and relation-joined, on a unit whose
   files are written and that has published nothing yet *)
InitPublish ==
    /\ canConnect \in [Containers -> BOOLEAN]
    /\ service \in [Containers -> ServiceStates]
    /\ Observable
    /\ \A c \in {ROUTECTL, WEB} : canConnect[c] => service[c] = "active"
    /\ files = Files
    /\ sts \in {{}, StsParts}
    /\ nads = NadNames
    /\ config = DefaultConfig
    /\ relations = RelationIds
    /\ appData = Unpublished
    /\ status = Unknown
    /\ NoRun

NextPublish ==
    \/ BessdPebbleReady
    \/ ConfigChanged
    \/ UpfRelationJoined

SpecPublish == InitPublish /\ [][NextPublish]_vars

(* The statefulset as the cluster can show it: with any part of what
   patch_statefulset sets; install and the four container-ready handlers,
   every container either not reachable or running its service *)
InitPatch ==
    /\ canConnect \in [Containers -> BOOLEAN]
    /\ service = [c \in Containers |-> IF canConnect[c] THEN "active" ELSE "absent"]
    /\ files = Files
    /\ sts \in SUBSET StsParts
    /\ nads = NadNames
    /\ config = DefaultConfig
    /\ relations = {}
    /\ appData = Unpublished
    /\ status = Unknown
    /\ NoRun

NextPatch ==
    \/ Install
    \/ BessdPebbleReady
    \/ RoutectlPebbleReady
    \/ WebPebbleReady
    \/ PfcpAgentPebbleReady

SpecPatch == InitPatch /\ [][NextPatch]_vars

(* The same event twice in a row: Juju emits an event of kind e, the handler
   runs, and the event is emitted once more before anything else happens *)

(* what the environment can answer to an invocation of the handler of e *)
HandlerInputs(e) ==
    CASE e = "install" ->
             {Input(NoCommand, {}, nf, sg) : nf \in NadFaults, sg \in Sigterms}
      [] e = "remove" ->
             {Input(NoCommand, {}, nf, NoSigterm) : nf \in NadFaults}
      [] e \in {"bessd_pebble_ready", "config_changed"} ->
             {i \in {Exiting(Input(f, rf, NoFaults, NoSigterm), x) :
                        f \in ExecFailures, rf \in SUBSET relations, x \in BOOLEAN} :
                 i.execFail # NoCommand => (i.relFail = {} /\ ~i.bessdExits)}
      [] e = "upf_relation_joined" ->
             {Input(NoCommand, rf, NoFaults, NoSigterm) : rf \in SUBSET relations}
      [] OTHER -> {NoInput}

FirstRun(e) ==
    /\ handler = "none"
    /\ \E inp \in HandlerInputs(e) :
          LET s == Dispatch(e, Begin, inp)
          IN  /\ Commit(e, s)
              /\ deferred' = IF Deferred(s) THEN deferred \cup {e} ELSE deferred
    /\ pending' = {e}

SecondRun(e) ==
    /\ handler = e
    /\ pending = {e}
    /\ \E inp \in HandlerInputs(e) :
          LET s == Dispatch(e, Begin, inp)
          IN  /\ Commit(e, s)
              /\ deferred' = IF Deferred(s) THEN deferred \cup {e} ELSE deferred
    /\ pending' = {}

InitTwice ==
    /\ canConnect \in [Containers -> BOOLEAN]
    /\ service \in [Containers -> ServiceStates]
    /\ Observable
    /\ \A c \in {ROUTECTL, WEB} : canConnect[c] => service[c] = "active"
    /\ files \in {{}, Files}
    /\ sts \in {{}, StsParts}
    /\ nads \in {{}, NadNames}
    /\ config = DefaultConfig
    /\ relations = RelationIds
    /\ appData = Unpublished
    /\ status = Unknown
    /\ NoRun

NextTwice ==
    \/ \E e \in Events : FirstRun(e)
    \/ \E e \in Events : SecondRun(e)

SpecTwice == InitTwice /\ [][NextTwice]_vars

-----------------------------------------------------------------------------
(* The life of a unit: from a fresh unit whose containers can be reached,
   every handler in any order, deferred events delivered again *)

InitLifecycle ==
    /\ canConnect = [c \in Containers |-> TRUE]
    /\ service = [c \in Containers |-> "absent"]
    /\ files \in {{}, {PfcpAgentConfigFile}}
    /\ sts = {}
    /\ nads = {}
    /\ config = DefaultConfig
    /\ relations = RelationIds
    /\ appData = Unpublished
    /\ status = Unknown
    /\ NoRun

(* Juju emits event e; every command and every cluster call succeeds, the
   relation writes succeed or not *)
Emit(e) ==
    \E rf \in SUBSET relations :
        Deliver(e, Input(NoCommand, rf, NoFaults, NoSigterm))

NextLifecycle == \E e \in Events : Emit(e)

SpecLifecycle == InitLifecycle /\ [][NextLifecycle]_vars

-----------------------------------------------------------------------------
(* Convergence: the four container-ready events are emitted once each, in
   any order; Juju dispatches what it has emitted and the framework delivers
   deferred events again *)

ReadyEvents ==
    {"bessd_pebble_ready", "routectl_pebble_ready", "web_pebble_ready",
     "pfcp_agent_pebble_ready"}

DispatchPending(e) ==
    \E f \in ExecFailures, rf \in SUBSET relations :
        DeliverPending(e, Input(f, rf, NoFaults, NoSigterm))

RedeliverEvent(e) ==
    \E f \in ExecFailures, rf \in SUBSET relations :
        Redeliver(e, Input(f, rf, NoFaults, NoSigterm))

InitConverge ==
    /\ canConnect = [c \in Containers |-> TRUE]
    /\ service \in [Containers -> ServiceStates]
    /\ files = Files
    /\ sts = StsParts
    /\ nads = NadNames
    /\ config = DefaultConfig
    /\ relations = RelationIds
    /\ appData = [r \in RelationIds |-> Absent]
    /\ status = Unknown
    /\ deferred = {}
    /\ pending = ReadyEvents
    /\ handler = "none"
    /\ trace = <<>>
    /\ result = "ok"
    /\ fresh = FALSE

NextConverge ==
    \/ \E e \in ReadyEvents : DispatchPending(e)
    \/ \E e \in ReadyEvents : RedeliverEvent(e)

FairConverge ==
    \A e \in ReadyEvents :
        WF_vars(DispatchPending(e)) /\ WF_vars(RedeliverEvent(e))

SpecConverge == InitConverge /\ [][NextConverge]_vars /\ FairConverge

-----------------------------------------------------------------------------
(* Properties *)

Running(c) == canConnect[c] /\ service[c] = "active"
AllRunning == \A c \in Containers : Running(c)

ContainerOrder == <<BESSD, ROUTECTL, WEB, PFCP_AGENT>>

ServiceWaitReason(c) ==
    CASE c = BESSD -> WaitBessdService
      [] c = ROUTECTL -> WaitRoutectlService
      [] c = WEB -> WaitWebService
      [] c = PFCP_AGENT -> WaitPfcpService

Defers(tr) == HasOp(tr, "defer")

(* the last write of the unit status in tr is the one of _set_application_status *)
LastStatusIsRecomputed(tr) ==
    \E i \in 2..Len(tr) :
        /\ tr[i].op = "status"
        /\ tr[i-1].op = "_set_application_status"
        /\ \A j \in (i+1)..Len(tr) : tr[j].op # "status"

(* C1: _set_application_status checks bessd, routectl, web, pfcp-agent in
   that order: whatever the four containers show, the status it sets is
   Waiting with the reason of the first one that is not connectable and
   running, and it is Active exactly when all four are connectable and
   running. *)
C1_StatusIsFirstNotRunning ==
    handler = "_set_application_status" =>
        /\ status = Active <=> AllRunning
        /\ \A i \in 1..Len(ContainerOrder) :
              ( /\ ~Running(ContainerOrder[i])
                /\ \A j \in 1..(i-1) : Running(ContainerOrder[j]) )
              => status = ServiceWaitReason(ContainerOrder[i])

C1_Witness ==
    /\ handler = "_set_application_status"
    /\ Running(BESSD)
    /\ canConnect[ROUTECTL] /\ service[ROUTECTL] = "inactive"
    /\ ~canConnect[WEB] /\ service[WEB] = "active"
    /\ ~Running(PFCP_AGENT)
    /\ status = WaitRoutectlService

(* C2, as claimed: in every reachable state the unit status is Active if and
   only if all four containers are connectable and their services run. *)
C2_ActiveIffAllRunning == status = Active <=> AllRunning

(* C2, amended: from the end of an invocation whose last status write is the
   recomputation of _set_application_status until the environment next
   changes, the unit status is Active if and only if all four containers are
   connectable and their services run. *)
C2_ActiveIffAllRunningWhenRecomputed ==
    (fresh /\ LastStatusIsRecomputed(trace)) => (status = Active <=> AllRunning)

C2_Witness ==
    /\ fresh
    /\ LastStatusIsRecomputed(trace)
    /\ status = Active
    /\ AllRunning

(* a one-shot command exited non-zero in the last invocation *)
CommandFailed == HasOp(trace, "ExecError")

(* C3, as claimed: with all four containers connectable, the files present
   and the statefulset patched, whatever the order of the four
   container-ready events and with deferred events delivered again, the unit
   status eventually is Active and stays Active. *)
C3_EventuallyActive == <>[](status = Active)

(* C3, amended: the same, provided the one-shot commands of the bessd
   handler succeed from some point on. *)
C3_EventuallyActiveIfCommandsSucceed ==
    <>[](~CommandFailed) => <>[](status = Active)

C3_Witness ==
    /\ status = Active
    /\ pending = {}
    /\ deferred = {}
    /\ handler = "pfcp_agent_pebble_ready"
    /\ AllRunning

(* what the bessd handler asks for before it acts, as the state shows it *)
BessdConnectable == canConnect[BESSD]
BessdConfigWritten == BessdConfigFile \in files
PodstartWritten == BessdPoststartFile \in files
PfcpConfigWritten == PfcpAgentConfigFile \in files
Patched == MultusAnnotation \in sts
BessdPreconditions ==
    BessdConnectable /\ BessdConfigWritten /\ PodstartWritten /\ Patched

StatusThenDefer(msg) == <<Ev("status", msg, NoDetail), Ev("defer", "", NoDetail)>>
StatusOnly(msg) == <<Ev("status", msg, NoDetail)>>

PrepareCommands == {RanRouteCmd, DefaultRouteCmd, IpTablesCmd}

(* C4: an invocation of the bessd container-ready handler in which one of
   its four preconditions (bessd connectable, config file present, startup
   script present, statefulset patched) is unmet runs no one-shot command,
   applies no plan and publishes no relation value; so the bessd plan is
   never applied while the config file or the startup script is absent. *)
C4_BessdActsOnlyOnPreconditions ==
    [][ (handler' = "bessd_pebble_ready" /\ ~BessdPreconditions) =>
            /\ ~HasOp(trace', "exec")
            /\ ~HasOp(trace', "add_layer")
            /\ ~HasOp(trace', "replan")
            /\ ~HasOp(trace', "set_info")
            /\ service' = service
            /\ appData' = appData ]_vars

C4_Witness ==
    /\ handler = "bessd_pebble_ready"
    /\ BessdConnectable /\ Patched
    /\ ~BessdConfigWritten /\ ~PodstartWritten
    /\ status = WaitConfigFile
    /\ trace = StatusOnly(WaitConfigFile)

(* C5: the bessd container-ready handler looks at connectable, config file,
   startup script, statefulset patched in that order, and the first unmet
   one alone decides: not connectable and not patched each set their own
   Waiting reason and defer; a missing config file and a missing startup
   script each set their own Waiting reason and return without deferring. *)
C5_BessdFirstUnmetDecides ==
    [][ handler' = "bessd_pebble_ready" =>
            /\ ~BessdConnectable =>
                  trace' = StatusThenDefer(WaitBessdContainer)
                  /\ status' = WaitBessdContainer
            /\ (BessdConnectable /\ ~BessdConfigWritten) =>
                  trace' = StatusOnly(WaitConfigFile)
                  /\ status' = WaitConfigFile
            /\ (BessdConnectable /\ BessdConfigWritten /\ ~PodstartWritten) =>
                  trace' = StatusOnly(WaitPodstartFile)
                  /\ status' = WaitPodstartFile
            /\ (BessdConnectable /\ BessdConfigWritten /\ PodstartWritten /\ ~Patched) =>
                  trace' = StatusThenDefer(WaitStatefulset)
                  /\ status' = WaitStatefulset ]_vars

C5_Witness ==
    /\ handler = "bessd_pebble_ready"
    /\ BessdConnectable /\ BessdConfigWritten
    /\ ~PodstartWritten /\ ~Patched
    /\ trace = StatusOnly(WaitPodstartFile)
    /\ status = WaitPodstartFile

BessdFullOps ==
    <<"exec", "exec", "exec", "add_layer", "replan", "exec",
      "_set_application_status", "status", "set_info">>

(* C6: when the preconditions of the bessd container-ready handler hold and
   no command exits non-zero, the invocation does exactly this, in this
   order: RAN route replace, default route replace (metric 110), iptables
   rule insert, add the bessd layer, replan, run the startup script with the
   bessd environment, recompute the status, publish the relation value. *)
C6_BessdOrderOfActions ==
    [][ ( /\ handler' = "bessd_pebble_ready"
          /\ BessdPreconditions
          /\ ~HasOp(trace', "ExecError") ) =>
            /\ Len(trace') >= Len(BessdFullOps)
            /\ SubSeq(Ops(trace'), 1, Len(BessdFullOps)) = BessdFullOps
            /\ \A i \in (Len(BessdFullOps)+1)..Len(trace') :
                  trace'[i].op = "ModelError"
            /\ trace'[1] = Ev("exec", RanRouteCmd, ExecTimeout)
            /\ trace'[2] = Ev("exec", DefaultRouteCmd, ExecTimeout)
            /\ trace'[3] = Ev("exec", IpTablesCmd, ExecTimeout)
            /\ trace'[4] = Ev("add_layer", BESSD, NoDetail)
            /\ trace'[5] = Ev("replan", BESSD, NoDetail)
            /\ trace'[6] = Ev("exec", PoststartCmd, BessdEnvironment)
            /\ trace'[8].arg = status'
            /\ trace'[9] = Ev("set_info", _upf_hostname, NoDetail) ]_vars

C6_Witness ==
    /\ handler = "bessd_pebble_ready"
    /\ BessdPreconditions
    /\ Ops(trace) = BessdFullOps
    /\ service[BESSD] = "active"
    /\ result = "ok"

(* C7: when one of the three preparation commands exits non-zero, no later
   command of the sequence is attempted, the bessd plan is not applied, the
   startup script is not run and the relation value is not published in
   that invocation. *)
C7_FailedPreparationStops ==
    [][ ( /\ handler' = "bessd_pebble_ready"
          /\ \E c \in PrepareCommands : HasEv(trace', "ExecError", c) ) =>
            /\ \A i \in 1..Len(trace') :
                  trace'[i].op = "ExecError" =>
                      \A j \in (i+1)..Len(trace') : trace'[j].op # "exec"
            /\ ~HasOp(trace', "add_layer")
            /\ ~HasOp(trace', "replan")
            /\ ~HasEv(trace', "exec", PoststartCmd)
            /\ ~HasOp(trace', "set_info")
            /\ service' = service
            /\ appData' = appData ]_vars

C7_Witness ==
    /\ handler = "bessd_pebble_ready"
    /\ HasEv(trace, "exec", RanRouteCmd)
    /\ HasEv(trace, "ExecError", DefaultRouteCmd)
    /\ ~HasEv(trace, "exec", IpTablesCmd)
    /\ service[BESSD] = "absent"

(* C8, as claimed: a non-zero exit of any one-shot command of the bessd
   container-ready handler is raised out of the handler, and is not turned
   into a Waiting status with a deferred event. *)
C8_CommandFailureIsRaised ==
    [][ (handler' = "bessd_pebble_ready" /\ HasOp(trace', "ExecError")) =>
            /\ result' = "ExecError"
            /\ ~Defers(trace')
            /\ ~HasOp(trace', "status") ]_vars

(* C8, amended: a non-zero exit of the startup script is raised out of the
   handler, which sets no status and does not defer; a non-zero exit of one
   of the three preparation commands is caught: the handler sets Waiting
   ("Waiting to be able to prepare bessd container"), defers the event and
   returns normally. *)
C8_ScriptFailureRaisedPreparationFailureDeferred ==
    [][ handler' = "bessd_pebble_ready" =>
            /\ HasEv(trace', "ExecError", PoststartCmd) =>
                  /\ result' = "ExecError"
                  /\ ~Defers(trace')
                  /\ ~HasOp(trace', "status")
                  /\ status' = status
            /\ (\E c \in PrepareCommands : HasEv(trace', "ExecError", c)) =>
                  /\ result' = "ok"
                  /\ status' = WaitPrepareBessd
                  /\ SubSeq(trace', Len(trace') - 1, Len(trace'))
                        = StatusThenDefer(WaitPrepareBessd) ]_vars

C8_Witness ==
    /\ handler = "bessd_pebble_ready"
    /\ HasEv(trace, "ExecError", IpTablesCmd)
    /\ result = "ok"
    /\ status = WaitPrepareBessd
    /\ Defers(trace)

PfcpFullOps == <<"add_layer", "replan", "_set_application_status", "status">>

(* C9: the pfcp-agent container-ready handler looks at pfcp-agent
   connectable, its config file present, the bessd service running, the
   statefulset patched, in that order; the first unmet one sets its Waiting
   reason and defers; the pfcp-agent plan is applied only when all four
   hold, so never while the bessd service is not running. *)
C9_PfcpFirstUnmetDefers ==
    [][ handler' = "pfcp_agent_pebble_ready" =>
            /\ ~canConnect[PFCP_AGENT] =>
                  trace' = StatusThenDefer(WaitPfcpContainer)
            /\ (canConnect[PFCP_AGENT] /\ ~PfcpConfigWritten) =>
                  trace' = StatusThenDefer(WaitConfigFile)
            /\ (canConnect[PFCP_AGENT] /\ PfcpConfigWritten /\ ~Running(BESSD)) =>
                  trace' = StatusThenDefer(WaitBessdRunning)
            /\ ( /\ canConnect[PFCP_AGENT] /\ PfcpConfigWritten
                 /\ Running(BESSD) /\ ~Patched ) =>
                  trace' = StatusThenDefer(WaitStatefulset)
            /\ Defers(trace') => (status' = trace'[1].arg /\ service' = service)
            /\ HasEv(trace', "add_layer", PFCP_AGENT) =>
                  /\ canConnect[PFCP_AGENT] /\ PfcpConfigWritten
                  /\ Running(BESSD) /\ Patched
                  /\ Ops(trace') = PfcpFullOps ]_vars

C9_Witness ==
    /\ handler = "pfcp_agent_pebble_ready"
    /\ canConnect[PFCP_AGENT] /\ PfcpConfigWritten
    /\ ~Running(BESSD) /\ ~Patched
    /\ trace = StatusThenDefer(WaitBessdRunning)
    /\ status = WaitBessdRunning

SidecarReady(h, c, waitContainer) ==
    handler' = h =>
        /\ ~canConnect[c] =>
              trace' = StatusThenDefer(waitContainer) /\ service' = service
        /\ (canConnect[c] /\ ~Patched) =>
              trace' = StatusThenDefer(WaitStatefulset) /\ service' = service
        /\ (canConnect[c] /\ Patched) =>
              /\ Ops(trace') = PfcpFullOps
              /\ trace'[1] = Ev("add_layer", c, NoDetail)
              /\ trace'[2] = Ev("replan", c, NoDetail)
              /\ trace'[4].arg = status'
              /\ service' = [service EXCEPT ![c] = "active"]
        /\ ~HasOp(trace', "exec")
        /\ ~HasOp(trace', "set_info")
        /\ appData' = appData

(* C10: the routectl and the web container-ready handlers each look at
   connectable and then at statefulset patched; an unmet check sets Waiting
   and defers without applying a plan; when both hold the handler adds its
   own container's layer, replans and recomputes the status; neither runs a
   one-shot command nor publishes the relation value. *)
C10_RoutectlAndWebReady ==
    [][ /\ SidecarReady("routectl_pebble_ready", ROUTECTL, WaitRoutectlContainer)
        /\ SidecarReady("web_pebble_ready", WEB, WaitWebContainer) ]_vars

C10_Witness ==
    /\ handler = "routectl_pebble_ready"
    /\ canConnect[ROUTECTL] /\ Patched
    /\ Ops(trace) = PfcpFullOps
    /\ service[ROUTECTL] = "active"
    /\ ~canConnect[WEB]
    /\ status = WaitBessdService

FlagsSupported == ~_use_sriov /\ ~_use_hugepages

(* where the first event with operation op stands in tr *)
FirstIndex(tr, op) ==
    CHOOSE i \in 1..Len(tr) :
        tr[i].op = op /\ \A j \in 1..(i-1) : tr[j].op # op

(* where the last event with an operation of ops stands in tr *)
LastIndex(tr, ops) ==
    CHOOSE i \in 1..Len(tr) :
        tr[i].op \in ops /\ \A j \in (i+1)..Len(tr) : tr[j].op \notin ops

(* in the trace of a config-changed invocation that passed its own guards
   and met a patched statefulset or not, the index at which the part of the
   bessd handler ends: its Waiting and defer on an unpatched statefulset,
   its Waiting and defer on a failed preparation command, else its last
   relation write *)
BessdPartEnd(tr, patched) ==
    IF ~patched THEN 4
    ELSE IF \E c \in PrepareCommands : HasEv(tr, "ExecError", c)
         THEN FirstIndex(tr, "defer")
         ELSE LastIndex(tr, {"set_info", "ModelError"})

(* what the pfcp-agent handler does, from what it meets *)
PfcpPart(connectable, written, bessdRuns, patched, st) ==
    IF ~connectable THEN StatusThenDefer(WaitPfcpContainer)
    ELSE IF ~written THEN StatusThenDefer(WaitConfigFile)
    ELSE IF ~bessdRuns THEN StatusThenDefer(WaitBessdRunning)
    ELSE IF ~patched THEN StatusThenDefer(WaitStatefulset)
    ELSE <<Ev("add_layer", PFCP_AGENT, NoDetail), Ev("replan", PFCP_AGENT, NoDetail),
           Ev("_set_application_status", "", NoDetail), Ev("status", st, NoDetail)>>

(* C11: config-changed with supported flags and bessd connectable writes
   the config file, then the startup script with permissions 0o755, then
   does what the bessd container-ready handler does, then what the
   pfcp-agent container-ready handler does; the pfcp-agent part is only
   missing when the startup script failed in the bessd part. *)
C11_ConfigChangedOrder ==
    [][ (handler' = "config_changed" /\ FlagsSupported /\ BessdConnectable) =>
            /\ Len(trace') >= 3
            /\ trace'[1] = Ev("push", BessdConfigFile,
                              Render(_upf_hostname, "af_packet"))
            /\ trace'[2] = Ev("push", BessdPoststartFile, ScriptPermissions)
            /\ \A i \in 3..Len(trace') : trace'[i].op # "push"
            /\ files' = files \cup {BessdConfigFile, BessdPoststartFile}
            /\ trace'[3] = IF Patched
                           THEN Ev("exec", RanRouteCmd, ExecTimeout)
                           ELSE Ev("status", WaitStatefulset, NoDetail)
            /\ result' # "ok" =>
                  /\ HasEv(trace', "ExecError", PoststartCmd)
                  /\ trace'[Len(trace')].op = "ExecError"
                  /\ ~HasEv(trace', "add_layer", PFCP_AGENT)
            /\ result' = "ok" =>
                  SubSeq(trace', BessdPartEnd(trace', Patched) + 1, Len(trace'))
                    = PfcpPart(canConnect[PFCP_AGENT], PfcpConfigWritten,
                               service'[BESSD] = "active", Patched, status') ]_vars

C11_Witness ==
    /\ handler = "config_changed"
    /\ result = "ok"
    /\ Ops(trace) = <<"push", "push">> \o BessdFullOps \o PfcpFullOps
    /\ trace[Len(trace) - 3] = Ev("add_layer", PFCP_AGENT, NoDetail)
    /\ {BessdConfigFile, BessdPoststartFile} \subseteq files
    /\ status = WaitRoutectlService

(* what a handler can change, apart from the record of its own run *)
Effects == <<service, files, sts, nads, appData, status, deferred>>

(* C12: config-changed with supported flags and bessd not connectable sets
   Waiting ("Waiting for bessd container to be ready"), defers the event and
   does nothing else: no file is written, no plan is applied, no command is
   run and no relation value is published. *)
C12_ConfigChangedWaitsForBessd ==
    [][ (handler' = "config_changed" /\ FlagsSupported /\ ~BessdConnectable) =>
            /\ trace' = StatusThenDefer(WaitBessdContainer)
            /\ status' = WaitBessdContainer
            /\ result' = "ok"
            /\ "config_changed" \in deferred'
            /\ files' = files
            /\ service' = service
            /\ appData' = appData
            /\ sts' = sts /\ nads' = nads ]_vars

C12_Witness ==
    /\ handler = "config_changed"
    /\ ~BessdConnectable
    /\ trace = StatusThenDefer(WaitBessdContainer)
    /\ "config_changed" \in deferred
    /\ files = {PfcpAgentConfigFile}
    /\ Patched
    /\ appData = Unpublished

(* C13: install and config-changed with the SR-IOV flag or the hugepages
   flag set raise NotImplementedError before any side effect: the invocation
   makes no call at all, and files, cluster resources, plans, relation value,
   unit status and deferred events are what they were. *)
C13_UnsupportedFlagsRaiseFirst ==
    [][ (handler' \in {"install", "config_changed"} /\ ~FlagsSupported) =>
            /\ result' = "NotImplementedError"
            /\ trace' = <<>>
            /\ UNCHANGED Effects ]_vars

C13_Witness ==
    /\ handler = "install"
    /\ _use_hugepages /\ ~_use_sriov
    /\ result = "NotImplementedError"
    /\ trace = <<>>
    /\ nads = {} /\ sts = {}
    /\ BessdConnectable

ClusterOps == {"get", "create", "delete", "signal", "patch"}

(* the place of a call in the sequence install makes *)
InstallRank(e) ==
    CASE e.op = "get" /\ e.arg = ACCESS_NETWORK_ATTACHMENT_DEFINITION_NAME -> 1
      [] e.op = "create" /\ e.arg = ACCESS_NETWORK_ATTACHMENT_DEFINITION_NAME -> 2
      [] e.op = "get" /\ e.arg = CORE_NETWORK_ATTACHMENT_DEFINITION_NAME -> 3
      [] e.op = "create" /\ e.arg = CORE_NETWORK_ATTACHMENT_DEFINITION_NAME -> 4
      [] e.op = "signal" -> 5
      [] e.op = "patch" -> 6
      [] OTHER -> 0

(* the lookup of name in tr was answered, by found or by NotFound *)
LookupAnswered(tr, name) ==
    \E i \in 1..Len(tr) : tr[i] = Ev("get", name, "none")

(* C14, as claimed: install with supported flags and bessd not connectable
   sets Waiting, defers the event and makes no call to the cluster. *)
C14_InstallWaitsForBessd ==
    [][ (handler' = "install" /\ FlagsSupported /\ ~BessdConnectable) =>
            /\ trace' = StatusThenDefer(WaitBessdContainer)
            /\ "install" \in deferred'
            /\ nads' = nads /\ sts' = sts ]_vars

(* C14, amended: install does not ask whether bessd can be reached: with
   supported flags and bessd not connectable it sets no status and does not
   defer, writes no file, and goes on to the cluster: it starts with the
   lookup of the access definition, and when it returns normally both
   network attachment definitions exist and the statefulset is patched. *)
C14_InstallIgnoresConnectivity ==
    [][ (handler' = "install" /\ FlagsSupported /\ ~BessdConnectable) =>
            /\ ~HasOp(trace', "status") /\ ~Defers(trace')
            /\ status' = status /\ deferred' = deferred
            /\ ~HasOp(trace', "push") /\ files' = files
            /\ Len(trace') >= 1
            /\ trace'[1].op = "get"
            /\ trace'[1].arg = ACCESS_NETWORK_ATTACHMENT_DEFINITION_NAME
            /\ result' = "ok" =>
                  (nads' = NadNames /\ MultusAnnotation \in sts') ]_vars

C14_Witness ==
    /\ handler = "install"
    /\ FlagsSupported /\ ~BessdConnectable
    /\ result = "ok"
    /\ HasOp(trace, "create") /\ HasOp(trace, "patch")
    /\ nads = NadNames /\ Patched
    /\ status = Unknown /\ deferred = {}

(* C15, as claimed: install with supported flags and bessd connectable first
   writes the config file, then the startup script, then creates the network
   attachment definitions and patches the statefulset. *)
C15_InstallWritesFilesFirst ==
    [][ (handler' = "install" /\ FlagsSupported /\ BessdConnectable) =>
            /\ Len(trace') >= 2
            /\ trace'[1].op = "push" /\ trace'[1].arg = BessdConfigFile
            /\ trace'[2].op = "push" /\ trace'[2].arg = BessdPoststartFile
            /\ \A i \in 3..Len(trace') : trace'[i].op \in ClusterOps ]_vars

(* C15, amended: install with supported flags writes no file.  It looks up
   the access definition and creates it if the lookup did not find it, does
   the same for the core definition, then patches the statefulset unless it
   is patched, in that order and each call at most once; where the lookups
   are answered, a definition that is present is not created again, and a
   normal return leaves both definitions present and the statefulset
   patched. *)
C15_InstallCreatesThenPatches ==
    [][ (handler' = "install" /\ FlagsSupported) =>
            /\ ~HasOp(trace', "push") /\ files' = files
            /\ \A i \in 1..Len(trace') : InstallRank(trace'[i]) > 0
            /\ \A i \in 1..Len(trace'), j \in 1..Len(trace') :
                  i < j => InstallRank(trace'[i]) < InstallRank(trace'[j])
            /\ \A n \in NadNames :
                  LookupAnswered(trace', n) =>
                      (HasEv(trace', "create", n) <=> n \notin nads)
            /\ HasOp(trace', "patch") => ~Patched
            /\ result' = "ok" =>
                  /\ HasOp(trace', "patch") <=> ~Patched
                  /\ nads' = NadNames
                  /\ MultusAnnotation \in sts' ]_vars

C15_Witness ==
    /\ handler = "install"
    /\ FlagsSupported /\ BessdConnectable
    /\ result = "ok"
    /\ trace = <<Ev("get", ACCESS_NETWORK_ATTACHMENT_DEFINITION_NAME, "none"),
                 Ev("get", CORE_NETWORK_ATTACHMENT_DEFINITION_NAME, "none"),
                 Ev("create", CORE_NETWORK_ATTACHMENT_DEFINITION_NAME, "macvlan"),
                 Ev("signal", "SIGTERM", "_handle_pod_termination"),
                 Ev("patch", AppName, NoDetail)>>
    /\ files = {}
    /\ nads = NadNames /\ Patched

(* the write of relation r failed in the invocation with trace tr *)
WriteFailed(tr, r) == HasEv(tr, "ModelError", ToString(r))

(* C16: relation-joined when the bessd service is not reported running
   (bessd not connectable, the service not declared, or not active) does
   nothing: no call is made, and relation value, unit status, plans and
   deferred events are what they were. *)
C16_RelationJoinedNoOp ==
    [][ (handler' = "upf_relation_joined" /\ ~Running(BESSD)) =>
            /\ trace' = <<>>
            /\ result' = "ok"
            /\ UNCHANGED Effects ]_vars

C16_Witness ==
    /\ handler = "upf_relation_joined"
    /\ canConnect[BESSD] /\ service[BESSD] = "inactive"
    /\ trace = <<>>
    /\ appData = Unpublished
    /\ status = Unknown
    /\ deferred = {}

(* C17: relation-joined when the bessd service is running leaves the url of
   every relation the unit may write equal to
   "upf-operator.whatever.svc.cluster.local" (<app>.<namespace>.svc.cluster.local),
   leaves the url of a relation it may not write as it was, and changes
   neither the unit status nor any plan. *)
C17_RelationJoinedPublishesHostname ==
    [][ (handler' = "upf_relation_joined" /\ Running(BESSD)) =>
            /\ trace'[1] = Ev("set_info", "upf-operator.whatever.svc.cluster.local",
                              NoDetail)
            /\ \A r \in relations :
                  appData'[r] = IF WriteFailed(trace', r) THEN appData[r]
                                ELSE "upf-operator.whatever.svc.cluster.local"
            /\ \A i \in 2..Len(trace') : trace'[i].op = "ModelError"
            /\ result' = "ok"
            /\ status' = status
            /\ service' = service
            /\ deferred' = deferred ]_vars

C17_Witness ==
    /\ handler = "upf_relation_joined"
    /\ Running(BESSD)
    /\ Len(trace) = 1 /\ trace[1].op = "set_info"
    /\ \A r \in relations : appData[r] = "upf-operator.whatever.svc.cluster.local"
    /\ status = Active

(* C18: after any sequence of lifecycle events the published url of every
   relation is absent or "upf-operator.whatever.svc.cluster.local", and a
   url that is set is never absent again, whatever handler runs, remove
   included. *)
C18_UrlAbsentOrHostnameNeverCleared ==
    /\ [](\A r \in relations :
            appData[r] \in {Absent, "upf-operator.whatever.svc.cluster.local"})
    /\ [][\A r \in relations :
            appData[r] # Absent => appData'[r] = appData[r]]_vars

C18_Witness ==
    /\ handler = "remove"
    /\ HasOp(trace, "delete")
    /\ nads = {}
    /\ \A r \in relations : appData[r] = "upf-operator.whatever.svc.cluster.local"

(* C19: a relation write that fails never aborts a handler: set_info goes on
   with the other relations, whose url it sets, and returns normally; the
   bessd container-ready handler then ends with the status it had just
   recomputed, relation-joined with the status it found, and config-changed
   goes on to the pfcp-agent handler. *)
C19_FailedRelationWriteIsPassedOver ==
    [][ (\E r \in relations : WriteFailed(trace', r)) =>
            /\ result' = "ok"
            /\ \A r \in relations :
                  appData'[r] = IF WriteFailed(trace', r) THEN appData[r]
                                ELSE "upf-operator.whatever.svc.cluster.local"
            /\ handler' \in {"bessd_pebble_ready", "upf_relation_joined",
                             "config_changed"}
            /\ handler' = "bessd_pebble_ready" =>
                  trace'[FirstIndex(trace', "set_info") - 1]
                      = Ev("status", status', NoDetail)
            /\ handler' = "upf_relation_joined" => status' = status
            /\ handler' = "config_changed" =>
                  trace'[Len(trace')].op \in {"status", "defer"} ]_vars

C19_Witness ==
    /\ handler = "bessd_pebble_ready"
    /\ result = "ok"
    /\ WriteFailed(trace, 1) /\ ~WriteFailed(trace, 2)
    /\ appData[1] = Absent
    /\ appData[2] = "upf-operator.whatever.svc.cluster.local"
    /\ status = WaitRoutectlService

(* C20: remove deletes each of the two network attachment definitions whose
   lookup finds it and issues no delete for one that is absent; where both
   lookups are answered it returns normally and no definition is left.  It
   makes no other call, and statefulset, files, plans, unit status, relation
   value and deferred events are what they were. *)
C20_RemoveDeletesWhatExists ==
    [][ handler' = "remove" =>
            /\ \A i \in 1..Len(trace') : trace'[i].op \in {"get", "delete"}
            /\ \A n \in NadNames :
                  /\ HasEv(trace', "delete", n) => n \in nads
                  /\ LookupAnswered(trace', n) =>
                        /\ HasEv(trace', "delete", n) <=> n \in nads
                        /\ n \notin nads'
            /\ (\A n \in NadNames : LookupAnswered(trace', n)) =>
                  (result' = "ok" /\ nads' = {})
            /\ nads' \subseteq nads
            /\ UNCHANGED <<service, files, sts, appData, status, deferred>> ]_vars

C20_Witness ==
    /\ handler = "remove"
    /\ result = "ok"
    /\ trace = <<Ev("get", ACCESS_NETWORK_ATTACHMENT_DEFINITION_NAME, "none"),
                 Ev("delete", ACCESS_NETWORK_ATTACHMENT_DEFINITION_NAME, NoDetail),
                 Ev("get", CORE_NETWORK_ATTACHMENT_DEFINITION_NAME, "none")>>
    /\ nads = {}
    /\ Patched
    /\ appData = Published
    /\ status = Active

-----------------------------------------------------------------------------
(* the number of calls of kind op in tr *)
Count(tr, op) == Cardinality({i \in 1..Len(tr) : tr[i].op = op})

(* C26: patch_statefulset is guarded by statefulset_is_patched: an invocation
   that finds the statefulset patched issues no patch call and sets no signal
   handler; an invocation issues the patch call at most once, and only when
   it finds the statefulset not patched, so that once the patch is in place
   no later install issues it again; and no operation of the unit removes
   any part of the patch. *)
C26_PatchIsGuardedAndKept ==
    [][ /\ Patched => (~HasOp(trace', "patch") /\ ~HasOp(trace', "signal"))
        /\ Count(trace', "patch") <= 1
        /\ (handler' = "install" /\ FlagsSupported /\ ~Patched /\ result' = "ok")
              => Count(trace', "patch") = 1
        /\ sts \subseteq sts'
        /\ Patched => Patched' ]_vars

(* install has run to its end on a statefulset that was already patched *)
C26_Witness ==
    /\ handler = "install"
    /\ result = "ok"
    /\ HasOp(trace, "get")
    /\ ~HasOp(trace, "patch")
    /\ ~HasOp(trace, "signal")
    /\ sts = StsParts

(* C28: in patch_statefulset the SIGTERM handler is set immediately before
   the patch call, and only when the statefulset is found not patched; an
   install that has made the patch call and does not return normally has
   ended with exit status 0, whether or not the cluster applied the patch;
   the handler then has neither deferred the event nor set a status: the
   event is left to Juju to deliver again. *)
C28_SignalHandlerSetRightBeforePatch ==
    [][ handler' = "install" =>
            /\ \A i \in 1..Len(trace') :
                  /\ trace'[i].op = "signal" =>
                        (i < Len(trace') /\ trace'[i + 1].op = "patch")
                  /\ trace'[i].op = "patch" =>
                        (i > 1 /\ trace'[i - 1] =
                            Ev("signal", "SIGTERM", "_handle_pod_termination"))
            /\ HasOp(trace', "signal") => ~Patched
            /\ (HasOp(trace', "patch") /\ result' # "ok") =>
                  /\ result' = "SystemExit(0)"
                  /\ sts' \in {sts, sts \cup StsParts}
            /\ result' = "SystemExit(0)" =>
                  /\ HasOp(trace', "signal")
                  /\ ~Defers(trace')
                  /\ deferred' = deferred
                  /\ status' = status ]_vars

(* install was ended by a SIGTERM during a patch call the cluster has not
   applied *)
C28_Witness ==
    /\ handler = "install"
    /\ result = "SystemExit(0)"
    /\ Len(trace) >= 2
    /\ trace[Len(trace)].op = "patch"
    /\ trace[Len(trace) - 1].op = "signal"
    /\ ~Patched

(* what the cluster answered to the lookup of definition name in tr *)
Answers(tr, name) ==
    {tr[i].detail : i \in {j \in 1..Len(tr) : tr[j].op = "get" /\ tr[j].arg = name}}

(* C24, as claimed: over install and remove events, create is never issued
   for a network attachment definition that is in the cluster, whatever the
   lookup answered. *)
C24_NeverCreatesWhatExists ==
    [][ \A n \in NadNames : HasEv(trace', "create", n) => n \notin nads ]_vars

(* the answers of the cluster to a lookup that fail in transport *)
TransportErrors == {"Http404", "HttpError"}

(* C25, as claimed: a lookup that finds the definition is reported as
   created (install issues no create for it), a lookup answered NotFound is
   reported as not created (install creates it), and a lookup that fails in
   transport is raised to the caller: the invocation ends with the HTTP error
   and issues neither a create nor a delete for that definition. *)
C25_TransportErrorsAreRaised ==
    [][ \A n \in NadNames :
          /\ (handler' = "install" /\ "none" \in Answers(trace', n)) =>
                (HasEv(trace', "create", n) <=> n \notin nads)
          /\ (Answers(trace', n) \cap TransportErrors # {}) =>
                /\ result' = "HTTPStatusError"
                /\ ~HasEv(trace', "create", n)
                /\ ~HasEv(trace', "delete", n) ]_vars

(* what the pfcp-agent handler leaves as unit status, from what it meets *)
PfcpStatus(connectable, written, bessdRuns, patched, st) ==
    IF ~connectable THEN WaitPfcpContainer
    ELSE IF ~written THEN WaitConfigFile
    ELSE IF ~bessdRuns THEN WaitBessdRunning
    ELSE IF ~patched THEN WaitStatefulset
    ELSE st

(* the unit status _set_application_status computes in the state reached *)
Aggregate ==
    IF \E i \in 1..4 : ~Running(ContainerOrder[i])'
    THEN ServiceWaitReason(ContainerOrder[
             CHOOSE i \in 1..4 : /\ ~Running(ContainerOrder[i])'
                                 /\ \A j \in 1..(i-1) : Running(ContainerOrder[j])'])
    ELSE Active

(* C30: when config-changed runs with supported flags and bessd connectable
   and the bessd handler returns (it completed, waited or deferred), the
   pfcp-agent handler runs after it: every status the bessd part set comes
   before the pfcp-agent part, the last status set in the invocation is the
   pfcp-agent handler's, and it is the unit status at the end. *)
C30_PfcpHandlerHasLastWord ==
    [][ (handler' = "config_changed" /\ FlagsSupported /\ BessdConnectable
            /\ result' = "ok") =>
          LET k == BessdPartEnd(trace', Patched)
              last == LastIndex(trace', {"status"})
          IN  /\ k < Len(trace')
              /\ SubSeq(trace', k + 1, Len(trace'))
                    = PfcpPart(canConnect[PFCP_AGENT], PfcpConfigWritten,
                               service'[BESSD] = "active", Patched, status')
              /\ last > k
              /\ status' = trace'[last].arg
              /\ status' = PfcpStatus(canConnect[PFCP_AGENT], PfcpConfigWritten,
                                      service'[BESSD] = "active", Patched,
                                      Aggregate) ]_vars

(* config-changed has ended Active although its bessd part set Waiting *)
C30_Witness ==
    /\ handler = "config_changed"
    /\ result = "ok"
    /\ HasEv(trace, "status", WaitPrepareBessd)
    /\ trace[Len(trace)] = Ev("status", Active, NoDetail)
    /\ status = Active

(* the plans an invocation is there to apply *)
OwnPlans(h) ==
    CASE h = "bessd_pebble_ready" -> {BESSD}
      [] h = "routectl_pebble_ready" -> {ROUTECTL}
      [] h = "web_pebble_ready" -> {WEB}
      [] h = "pfcp_agent_pebble_ready" -> {PFCP_AGENT}
      [] h = "config_changed" -> {BESSD, PFCP_AGENT}
      [] OTHER -> {}

(* the invocation set a Waiting status with a reason *)
SetsWaiting(tr) ==
    \E i \in 1..Len(tr) : tr[i].op = "status" /\ IsWaiting(tr[i].arg)

(* every defer in tr comes right after a Waiting status is set *)
DefersAfterWaiting(tr) ==
    \A i \in 1..Len(tr) :
        tr[i].op = "defer" =>
            (i > 1 /\ tr[i - 1].op = "status" /\ IsWaiting(tr[i - 1].arg))

(* C23, as claimed: an invocation of a container-ready handler or of
   config-changed that returns normally without applying its plan has set
   Waiting, an invocation that defers has set Waiting, and none defers while
   leaving the unit status Active. *)
C23_NeverDefersWhileActive ==
    [][ handler' \in ReadyEvents \cup {"config_changed"} =>
          /\ (result' = "ok" /\ \E c \in OwnPlans(handler') :
                                    ~HasEv(trace', "add_layer", c))
                => SetsWaiting(trace')
          /\ Defers(trace') => SetsWaiting(trace')
          /\ Defers(trace') => status' # Active ]_vars

(* C23, amended: an invocation of a container-ready handler or of
   config-changed that returns normally without applying a plan of its own
   has set Waiting, and every defer comes right after a Waiting status is
   set.  A container-ready handler that defers or returns early leaves the
   unit Waiting.  Config-changed can end deferred and Active: its bessd part
   defers on a failed preparation command and its pfcp-agent part then
   recomputes the status with all four services running; in every other
   deferred ending it leaves the unit Waiting. *)
C23_WaitingSetBeforeEveryDefer ==
    [][ handler' \in ReadyEvents \cup {"config_changed"} =>
          /\ (result' = "ok" /\ \E c \in OwnPlans(handler') :
                                    ~HasEv(trace', "add_layer", c))
                => SetsWaiting(trace')
          /\ DefersAfterWaiting(trace')
          /\ (handler' \in ReadyEvents /\ result' = "ok"
                /\ (Defers(trace') \/ ~HasOp(trace', "add_layer")))
                => (IsWaiting(status') /\ HasEv(trace', "status", status'))
          /\ (handler' = "config_changed" /\ Defers(trace')) =>
                \/ IsWaiting(status')
                \/ /\ status' = Active
                   /\ AllRunning'
                   /\ HasEv(trace', "status", WaitPrepareBessd)
                   /\ HasEv(trace', "add_layer", PFCP_AGENT)
                   /\ "config_changed" \in deferred' ]_vars

(* config-changed has ended deferred with the unit Active *)
C23_Witness ==
    /\ handler = "config_changed"
    /\ result = "ok"
    /\ Defers(trace)
    /\ "config_changed" \in deferred
    /\ status = Active

(* the one-shot command cmd was run to its end in tr *)
Succeeded(tr, cmd) == HasEv(tr, "exec", cmd) /\ ~HasEv(tr, "ExecError", cmd)

(* C22, as claimed, for the firewall rule insert: an invocation that defers
   the event has not, before that defer, run the iptables insert to its end. *)
C22_NoDeferAfterFirewallInsert ==
    [][ \A i \in 1..Len(trace') :
          trace'[i].op = "defer" =>
              ~Succeeded(SubSeq(trace', 1, i), IpTablesCmd) ]_vars

(* where the first event with operation op and argument arg stands in tr, 0
   when there is none *)
IndexOf(tr, op, arg) ==
    IF HasEv(tr, op, arg)
    THEN CHOOSE i \in 1..Len(tr) :
             /\ tr[i].op = op /\ tr[i].arg = arg
             /\ \A j \in 1..(i-1) : ~(tr[j].op = op /\ tr[j].arg = arg)
    ELSE 0

(* C29, as claimed: every write of the url happens in a state where the
   bessd service is reported running. *)
C29_PublishedOnlyWhileBessdRuns ==
    [][ (HasOp(trace', "set_info") \/ HasOp(trace', "ModelError")) =>
            (canConnect[BESSD] /\ service'[BESSD] = "active") ]_vars

(* C29, amended: relation-joined writes the url only when the bessd service
   is reported running.  The bessd container-ready handler, on its own or
   within config-changed, writes it only after it has applied and replanned
   the bessd plan, run the startup script to its end and recomputed the
   status, without a check of its own: the service is then running, or it
   has exited since replan() started it, in which case the status just set
   is "Waiting for bessd service to run" and the url is written all the
   same. *)
C29_PublishedAfterServiceCheckOrReplan ==
    [][ (HasOp(trace', "set_info") \/ HasOp(trace', "ModelError")) =>
          LET first == FirstIndex(trace', IF HasOp(trace', "set_info")
                                          THEN "set_info" ELSE "ModelError")
              pub == IF HasOp(trace', "ModelError") /\
                          FirstIndex(trace', "ModelError") < first
                     THEN FirstIndex(trace', "ModelError") ELSE first
          IN  \/ /\ handler' = "upf_relation_joined"
                 /\ Running(BESSD)
                 /\ service'[BESSD] = "active"
              \/ /\ handler' \in {"bessd_pebble_ready", "config_changed"}
                 /\ canConnect[BESSD]
                 /\ 0 < IndexOf(trace', "add_layer", BESSD)
                 /\ IndexOf(trace', "add_layer", BESSD) < IndexOf(trace', "replan", BESSD)
                 /\ IndexOf(trace', "replan", BESSD) < IndexOf(trace', "exec", PoststartCmd)
                 /\ ~HasEv(trace', "ExecError", PoststartCmd)
                 /\ IndexOf(trace', "exec", PoststartCmd)
                        < IndexOf(trace', "_set_application_status", "")
                 /\ pub = IndexOf(trace', "_set_application_status", "") + 2
                 /\ \/ service'[BESSD] = "active"
                    \/ /\ service'[BESSD] = "inactive"
                       /\ trace'[pub - 1] = Ev("status", WaitBessdService, NoDetail) ]_vars

(* the bessd handler has written the url of a relation although the service
   it started is not running any more *)
C29_Witness ==
    /\ handler = "bessd_pebble_ready"
    /\ HasOp(trace, "set_info")
    /\ HasEv(trace, "status", WaitBessdService)
    /\ service[BESSD] = "inactive"
    /\ \E r \in relations : appData[r] = _upf_hostname

(* the statefulset carries the annotation set by patch_statefulset *)
Annotated == MultusAnnotation \in sts

(* the invocation has passed the checks that come before the one of the
   statefulset *)
ReachesPatchCheck(h) ==
    CASE h = "bessd_pebble_ready" ->
             BessdConnectable /\ BessdConfigWritten /\ PodstartWritten
      [] h = "routectl_pebble_ready" -> canConnect[ROUTECTL]
      [] h = "web_pebble_ready" -> canConnect[WEB]
      [] h = "pfcp_agent_pebble_ready" ->
             canConnect[PFCP_AGENT] /\ PfcpConfigWritten /\ Running(BESSD)
      [] OTHER -> FALSE

(* the invocation went on after the check of the statefulset *)
PassesPatchCheck(h, tr) ==
    CASE h = "bessd_pebble_ready" -> HasEv(tr, "exec", RanRouteCmd)
      [] h = "routectl_pebble_ready" -> HasEv(tr, "add_layer", ROUTECTL)
      [] h = "web_pebble_ready" -> HasEv(tr, "add_layer", WEB)
      [] h = "pfcp_agent_pebble_ready" -> HasEv(tr, "add_layer", PFCP_AGENT)
      [] OTHER -> FALSE

(* C27, as claimed: a container-ready handler applies its plan only when the
   statefulset carries the annotation and the security settings (privileged,
   NET_ADMIN) that patch_statefulset sets. *)
C27_PatchedMeansAnnotatedAndPrivileged ==
    [][ (handler' \in ReadyEvents /\ HasOp(trace', "add_layer"))
            => StsParts \subseteq sts ]_vars

(* C27, amended: statefulset_is_patched reports true exactly when the
   statefulset carries the network annotation, whatever its security
   settings: a container-ready handler that reaches the check goes on exactly
   when the annotation is there and otherwise sets "Waiting for statefulset
   to be patched" and defers, and install issues the patch exactly when the
   annotation is missing. *)
C27_PatchedMeansAnnotated ==
    [][ /\ (handler' \in ReadyEvents /\ ReachesPatchCheck(handler')) =>
              /\ PassesPatchCheck(handler', trace') <=> Annotated
              /\ ~Annotated => trace' = StatusThenDefer(WaitStatefulset)
        /\ (handler' \in ReadyEvents /\ HasOp(trace', "add_layer")) => Annotated
        /\ (handler' = "install" /\ result' = "ok") =>
              (HasOp(trace', "patch") <=> ~Annotated) ]_vars

(* a plan was applied on a statefulset that carries the annotation and no
   security setting *)
C27_Witness ==
    /\ handler \in ReadyEvents
    /\ HasOp(trace, "add_layer")
    /\ sts = {MultusAnnotation}

(* what the environment answered to the invocation recorded in tr: the
   commands that failed, the relation writes that failed, and whether the
   bessd service had exited when its status was read *)
FailedCommands(tr) == {tr[i].arg : i \in {j \in 1..Len(tr) : tr[j].op = "ExecError"}}
FailedWrites(tr) == {tr[i].arg : i \in {j \in 1..Len(tr) : tr[j].op = "ModelError"}}
MetExited(tr) ==
    \E i \in 1..Len(tr) : \E j \in (i+1)..Len(tr) :
        /\ tr[i] = Ev("replan", BESSD, NoDetail)
        /\ tr[j] = Ev("status", WaitBessdService, NoDetail)

SameAnswers(tr1, tr2) ==
    /\ FailedCommands(tr1) = FailedCommands(tr2)
    /\ FailedWrites(tr1) = FailedWrites(tr2)
    /\ MetExited(tr1) = MetExited(tr2)

(* C21: when a handler is invoked a second time in a row, with nothing
   changed in between but what its first invocation did, and the environment
   answers the second invocation as it answered the first (the same command
   fails, the same relation writes fail, the bessd service is met in the
   same state), then unit status, defer decision, plans and services, and
   relation value are after the second invocation what they were after the
   first. *)
C21_SecondRunLeavesWhatTheFirstLeft ==
    [][ (handler = handler' /\ pending = {handler} /\ pending' = {}
            /\ SameAnswers(trace, trace')) =>
          /\ status' = status
          /\ Defers(trace') = Defers(trace)
          /\ deferred' = deferred
          /\ service' = service
          /\ appData' = appData ]_vars

(* config-changed has run a second time in a row, again through both of its
   parts, and has ended Active as the first time *)
C21_Witness ==
    /\ handler = "config_changed"
    /\ pending = {}
    /\ result = "ok"
    /\ HasEv(trace, "add_layer", BESSD)
    /\ HasEv(trace, "add_layer", PFCP_AGENT)
    /\ status = Active
    /\ appData = Published

(* C32: when the startup script fails in the bessd container-ready handler,
   the bessd plan has been applied and replanned before the script was run,
   the failure leaves the handler as the last thing it did, and in that
   invocation the status is not recomputed, no status is set, no relation
   value is written and the event is not deferred: unit status, relation
   data and deferred events are what they were before the handler ran. *)
C32_FailedScriptLeavesStatusAndUrl ==
    [][ (handler' = "bessd_pebble_ready" /\ HasEv(trace', "ExecError", PoststartCmd)) =>
          LET n == Len(trace')
          IN  /\ n >= 4
              /\ trace'[n] = Ev("ExecError", PoststartCmd, "non-zero exit")
              /\ trace'[n - 1] = Ev("exec", PoststartCmd, BessdEnvironment)
              /\ trace'[n - 2] = Ev("replan", BESSD, NoDetail)
              /\ trace'[n - 3] = Ev("add_layer", BESSD, NoDetail)
              /\ service'[BESSD] = "active"
              /\ result' = "ExecError"
              /\ \A i \in 1..n :
                    trace'[i].op \notin {"_set_application_status", "status",
                                         "set_info", "ModelError", "defer"}
              /\ status' = status
              /\ appData' = appData
              /\ deferred' = deferred ]_vars

(* the startup script has failed after the plan was applied, and the unit is
   still shown Active although not all four services run *)
C32_Witness ==
    /\ handler = "bessd_pebble_ready"
    /\ result = "ExecError"
    /\ HasEv(trace, "replan", BESSD)
    /\ HasEv(trace, "ExecError", PoststartCmd)
    /\ status = Active
    /\ ~AllRunning
    /\ appData = [r \in RelationIds |-> Absent]
    /\ deferred = {}

-----------------------------------------------------------------------------
(* Config-changed and its re-delivery: the event is emitted once, and while
   it is deferred it is delivered again, each time with its own command
   failures, relation write failures and bessd service exits.  Nothing is
   published at the start. *)
InitRedeliver ==
    /\ canConnect \in [Containers -> BOOLEAN]
    /\ service \in [Containers -> ServiceStates]
    /\ Observable
    /\ \A c \in {ROUTECTL, WEB} : canConnect[c] => service[c] = "active"
    /\ files \in {{}, Files}
    /\ sts \in {{}, StsParts}
    /\ nads = NadNames
    /\ config = DefaultConfig
    /\ relations = RelationIds
    /\ appData = Unpublished
    /\ status = Unknown
    /\ NoRun

EmitConfigChanged == handler = "none" /\ ConfigChanged

RedeliverConfigChanged ==
    \E f \in ExecFailures, rf \in SUBSET relations, x \in BOOLEAN :
        /\ f # NoCommand => (rf = {} /\ ~x)
        /\ Redeliver("config_changed", Exiting(Input(f, rf, NoFaults, NoSigterm), x))

NextRedeliver ==
    \/ EmitConfigChanged
    \/ RedeliverConfigChanged

SpecRedeliver == InitRedeliver /\ [][NextRedeliver]_vars

(* the invocation behind tr ran the whole bessd sequence -- the three
   preparation commands, the plan, the startup script, a url written -- and
   ended with a defer, which then is the pfcp-agent handler's *)
BessdCompletedThenDeferred(tr) ==
    /\ \A c \in Commands : Succeeded(tr, c)
    /\ HasEv(tr, "add_layer", BESSD) /\ HasEv(tr, "replan", BESSD)
    /\ HasOp(tr, "set_info")
    /\ Len(tr) > 0 /\ tr[Len(tr)].op = "defer"

(* C31: with supported flags, an invocation of config-changed defers the
   event exactly when bessd is not connectable, or the bessd handler it runs
   defers (statefulset not patched, or a preparation command failed), or the
   pfcp-agent handler it runs defers (pfcp-agent not connectable, its config
   file missing, bessd service not running, statefulset not patched); there
   is one defer per deferring part and the event is then kept deferred.
   After an invocation in which the bessd handler completed and the
   pfcp-agent handler deferred, the next invocation writes both artifacts
   again and runs the bessd command sequence again from its first command,
   each command following the success of the one before it. *)
C31_DeferredIffAPartDefersAndRerunsAll ==
    [][ (handler' = "config_changed" /\ FlagsSupported) =>
          LET bessdDefers ==
                  /\ BessdConnectable
                  /\ (~Patched \/ FailedCommands(trace') \cap PrepareCommands # {})
              pfcpRuns == BessdConnectable /\ PoststartCmd \notin FailedCommands(trace')
              pfcpDefers ==
                  /\ pfcpRuns
                  /\ \/ ~canConnect[PFCP_AGENT]
                     \/ ~PfcpConfigWritten
                     \/ service'[BESSD] # "active"
                     \/ ~Patched
              N(b) == IF b THEN 1 ELSE 0
          IN  /\ Defers(trace') <=> (~BessdConnectable \/ bessdDefers \/ pfcpDefers)
              /\ Count(trace', "defer") =
                     N(~BessdConnectable) + N(bessdDefers) + N(pfcpDefers)
              /\ Defers(trace') => "config_changed" \in deferred'
              /\ (~Defers(trace') /\ "config_changed" \notin deferred)
                     => "config_changed" \notin deferred'
              /\ ( /\ handler = "config_changed"
                   /\ "config_changed" \in deferred
                   /\ BessdCompletedThenDeferred(trace) ) =>
                     /\ Len(trace') >= 3
                     /\ trace'[1] = Ev("push", BessdConfigFile,
                                       Render(_upf_hostname, "af_packet"))
                     /\ trace'[2] = Ev("push", BessdPoststartFile, ScriptPermissions)
                     /\ trace'[3].op = "exec" /\ trace'[3].arg = RanRouteCmd
                     /\ Succeeded(trace', RanRouteCmd)
                            => HasEv(trace', "exec", DefaultRouteCmd)
                     /\ Succeeded(trace', DefaultRouteCmd)
                            => HasEv(trace', "exec", IpTablesCmd)
                     /\ Succeeded(trace', IpTablesCmd)
                            => /\ HasEv(trace', "add_layer", BESSD)
                               /\ HasEv(trace', "replan", BESSD)
                               /\ HasEv(trace', "exec", PoststartCmd)
                     /\ Succeeded(trace', PoststartCmd)
                            => /\ HasOp(trace', "_set_application_status")
                               /\ Count(trace', "set_info") = 1
                               /\ SubSeq(Ops(trace'), 1, 2 + Len(BessdFullOps))
                                      = <<"push", "push">> \o BessdFullOps ]_vars

(* a re-delivered config-changed: every relation write failed in it although
   the url is published, so an earlier invocation published it; the bessd
   sequence ran to its end again and the pfcp-agent handler deferred again *)
C31_Witness ==
    /\ handler = "config_changed"
    /\ "config_changed" \in deferred
    /\ appData = Published
    /\ FailedWrites(trace) = {ToString(r) : r \in RelationIds}
    /\ \A c \in Commands : Succeeded(trace, c)
    /\ trace[1].op = "push"
    /\ trace[Len(trace)].op = "defer"
    /\ Count(trace, "defer") = 1

====
